---- MODULE Spec2Model ----
(***************************************************************************)
(* The Oracle driver of rainfrog (src/database/oracle/mod.rs): one task    *)
(* slot, a pool of at most three connections, and tokio workers running    *)
(* the blocking client calls.  The front end calls the driver's operations *)
(* one at a time; workers interleave with them.                            *)
(***************************************************************************)
EXTENDS Integers, FiniteSets, Sequences, TLC

\* ------------------------------------------------------------------ bounds
\* Number of tasks the front end may start in one behaviour.
MaxTasks == 4

\* max_connections(3) of the pool built by init.
PoolMax == 3

\* rows_affected: None of Option<u64>.
None == -1

Ids == 1..MaxTasks
Conns == 1..PoolMax

\* The SQL texts handed to start_query / start_tx.
SqlInputs == {"", "SELECT 1 FROM dual", "UPDATE t SET x=1"}

\* row_count() values a mutating statement may report (None: row_count().ok() failed).
RowCounts == {None, 1}

VARIABLES
  pool,      \* self.pool: "None" or "Some"
  free,      \* the connections the pool can hand out
  task,      \* self.task
  workers,   \* the spawned tokio tasks, by spawn order
  nextId,    \* number of tokio tasks spawned so far
  ret,       \* the last driver operation: its return value and the
             \* commit() / rollback() it issued
  crashed,   \* the calling thread panicked (unwrap of an absent pool)
  capAtStart \* history of the mutating statement in the slot, when it was
             \* started from an empty slot: the number of idle pool connections
             \* at that start_query, and whether no earlier worker was still
             \* active then (NoStart otherwise)

vars == <<pool, free, task, workers, nextId, ret, crashed, capAtStart>>

\* ------------------------------------------------------------------ values
\* QueryResultsWithMetadata: err = "ok" for Ok(rows); id names the worker that
\* produced it.
NoRes == [err |-> "none", ra |-> None, kind |-> "none", id |-> 0]
MkRes(e, n, k, w) == [err |-> e, ra |-> n, kind |-> k, id |-> w]

\* The values of capAtStart.
NoStart == [cap |-> None, quiet |-> FALSE]
AtStart(n, q) == [cap |-> n, quiet |-> q]

\* Option<OracleTask>
NoTask == [kind |-> "None", h |-> 0, conn |-> 0, res |-> NoRes]
QueryTask(w) == [kind |-> "Query", h |-> w, conn |-> 0, res |-> NoRes]
TxStart(w) == [kind |-> "TxStart", h |-> w, conn |-> 0, res |-> NoRes]
TxPending(c, r) == [kind |-> "TxPending", h |-> 0, conn |-> c, res |-> r]

\* A tokio task: st is "unspawned", "spawned" (not yet polled by the runtime),
\* "running" (inside the blocking call, holding conn), "done" (output stored in
\* the task cell), "panicked" or "cancelled" (JoinError stored), or "gone" (the
\* task is over and its output taken or dropped).  attached: a JoinHandle to it
\* still exists.
NoWorker == [kind |-> "none", st |-> "unspawned", conn |-> 0, res |-> NoRes, attached |-> FALSE]
Spawned(k) == [kind |-> k, st |-> "spawned", conn |-> 0, res |-> NoRes, attached |-> TRUE]
Gone == [kind |-> "none", st |-> "gone", conn |-> 0, res |-> NoRes, attached |-> FALSE]

\* The record of a driver operation: op and tag name the call and the variant it
\* returned, res / ra / kind are the payload of that variant.  issued: "commit"
\* or "rollback" when the operation called it on a connection; on: the worker
\* whose statement ran on that connection; pre: what the slot held at the call.
Ret(o, t, r, n, k) ==
  [op |-> o, tag |-> t, res |-> r, ra |-> n, kind |-> k,
   issued |-> "none", on |-> 0, pre |-> "None"]
Plain(o, t) == Ret(o, t, NoRes, None, "none")
Issued(rt, what, w) == [rt EXCEPT !.issued = what, !.on = w]
Called(rt, t) == [rt EXCEPT !.pre = t.kind]

\* super::get_first_query: the first statement and its kind, or an error.
GetFirstQuery(sql) ==
  IF sql = "SELECT 1 FROM dual" THEN [ok |-> TRUE, kind |-> "Query"]
  ELSE IF sql = "UPDATE t SET x=1" THEN [ok |-> TRUE, kind |-> "Update"]
  ELSE [ok |-> FALSE, kind |-> "none"]

\* No spawned task is waiting to run or inside its blocking call.
NoneActive(ws) == \A w \in Ids : ws[w].st \notin {"spawned", "running"}

\* ------------------------------------------------------------------ drops
\* Connection::drop: the connection goes back to the pool.
Release(fr, c) == IF c = 0 THEN fr ELSE fr \cup {c}

\* Pool::get on a pool with an idle connection.  The connections are
\* interchangeable; the pool hands out the lowest-numbered idle one.
Checkout(fr) == CHOOSE c \in fr : \A d \in fr : c <= d

\* JoinHandle::abort: a task the runtime has not polled yet is cancelled; the
\* workers have no await point, so a running one runs on to completion.
AbortHandle(ws, w) ==
  IF ws[w].st = "spawned" THEN [ws EXCEPT ![w].st = "cancelled"] ELSE ws

\* Dropping a JoinHandle: the task is detached; an output already stored is
\* dropped with it.
DropHandleWorkers(ws, w) ==
  IF ws[w].st \in {"spawned", "running"}
    THEN [ws EXCEPT ![w].attached = FALSE]
    ELSE [ws EXCEPT ![w] = Gone]

\* A dropped JoinHandle whose stored output keeps its connection.
DropHandleFree_KeepsOutput(ws, fr, w) == fr

DropHandleFree(ws, fr, w) ==
  IF ws[w].st = "done" THEN Release(fr, ws[w].conn) ELSE fr

\* Dropping an OracleTask value.
DropTaskWorkers(ws, t) ==
  IF t.kind \in {"Query", "TxStart"} THEN DropHandleWorkers(ws, t.h) ELSE ws

\* A dropped TxPending whose connection never reaches the pool again.
DropTaskFree_LeaksPending(ws, fr, t) ==
  IF t.kind \in {"Query", "TxStart"} THEN DropHandleFree(ws, fr, t.h) ELSE fr

DropTaskFree(ws, fr, t) ==
  IF t.kind \in {"Query", "TxStart"} THEN DropHandleFree(ws, fr, t.h)
  ELSE IF t.kind = "TxPending" THEN Release(fr, t.conn)
  ELSE fr

\* ------------------------------------------------------------------ init
Init ==
  /\ pool = "None"
  /\ free = {}
  /\ task = NoTask
  /\ workers = [w \in Ids |-> NoWorker]
  /\ nextId = 0
  /\ ret = Plain("new", "ok")
  /\ crashed = FALSE
  /\ capAtStart = NoStart

\* init(args): builds the pool; called once, before the query operations.
InitDriver ==
  /\ ~crashed
  /\ pool = "None"
  /\ pool' = "Some"
  /\ free' = Conns
  /\ ret' = Plain("init", "ok")
  /\ UNCHANGED <<task, workers, nextId, crashed, capAtStart>>

\* ------------------------------------------------------------------ start_query
\* The task value start_query builds for a statement kind.
\* start_query leaving an occupied slot as it is.
NewTask_KeepsActive(k, w) ==
  IF task # NoTask THEN task
  ELSE IF k = "Query" THEN QueryTask(w) ELSE TxStart(w)

NewTask(k, w) == IF k = "Query" THEN QueryTask(w) ELSE TxStart(w)

WorkerKind(k) == IF k = "Query" THEN "Query" ELSE "TxStart"

\* start_query emptying the slot before it classifies the statement.
StartQueryBody_TakesFirst(op, sql) ==
  LET c == GetFirstQuery(sql)
      w == nextId + 1
  IN
  /\ ~crashed
  /\ IF ~c.ok
       THEN /\ ret' = Called(Plain(op, "Err"), task)
            /\ task' = NoTask
            /\ workers' = DropTaskWorkers(workers, task)
            /\ free' = DropTaskFree(workers, free, task)
            /\ capAtStart' = NoStart
            /\ UNCHANGED <<pool, nextId, crashed>>
       ELSE IF pool = "None"
       THEN /\ crashed' = TRUE
            /\ ret' = Called(Plain(op, "panic"), task)
            /\ UNCHANGED <<pool, free, task, workers, nextId, capAtStart>>
       ELSE /\ nextId < MaxTasks
            /\ nextId' = w
            /\ workers' = [DropTaskWorkers(workers, task) EXCEPT ![w] = Spawned(WorkerKind(c.kind))]
            /\ free' = DropTaskFree(workers, free, task)
            /\ task' = NewTask(c.kind, w)
            /\ ret' = Called(Plain(op, "Ok"), task)
            /\ capAtStart' = IF task = NoTask /\ c.kind # "Query"
                               THEN AtStart(Cardinality(free), NoneActive(workers))
                               ELSE NoStart
            /\ UNCHANGED <<pool, crashed>>

StartQueryBody(op, sql) ==
  LET c == GetFirstQuery(sql)
      w == nextId + 1
  IN
  /\ ~crashed
  /\ IF ~c.ok
       THEN \* get_first_query(..)? returns the error
            /\ ret' = Called(Plain(op, "Err"), task)
            /\ UNCHANGED <<pool, free, task, workers, nextId, crashed, capAtStart>>
       ELSE IF pool = "None"
       THEN \* self.pool.clone().unwrap() panics
            /\ crashed' = TRUE
            /\ ret' = Called(Plain(op, "panic"), task)
            /\ UNCHANGED <<pool, free, task, workers, nextId, capAtStart>>
       ELSE /\ nextId < MaxTasks
            /\ nextId' = w
            /\ workers' = [DropTaskWorkers(workers, task) EXCEPT ![w] = Spawned(WorkerKind(c.kind))]
            /\ free' = DropTaskFree(workers, free, task)
            /\ task' = NewTask(c.kind, w)
            /\ ret' = Called(Plain(op, "Ok"), task)
            /\ capAtStart' = IF task = NoTask /\ c.kind # "Query"
                               THEN AtStart(Cardinality(free), NoneActive(workers))
                               ELSE NoStart
            /\ UNCHANGED <<pool, crashed>>

StartQuery == \E sql \in SqlInputs : StartQueryBody("start_query", sql)

\* start_tx(query) is Self::start_query(self, query).
StartTx == \E sql \in SqlInputs : StartQueryBody("start_query", sql)

\* ------------------------------------------------------------------ abort_query
\* abort_query answering true whatever the slot held.
AbortRet_AlwaysTrue(t) == "true"

\* abort_query treating TxPending like an empty slot.
AbortRet_PendingIsNoTask(t) == IF t.kind \in {"Query", "TxStart"} THEN "true" ELSE "false"

AbortRet(t) == IF t.kind # "None" THEN "true" ELSE "false"

AbortTaskWorkers(ws, t) ==
  IF t.kind \in {"Query", "TxStart"} THEN AbortHandle(ws, t.h) ELSE ws

\* abort_query signalling the worker and keeping its handle in the slot.
AbortQuery_KeepsHandle ==
  /\ ~crashed
  /\ ret' = Called(Plain("abort_query", AbortRet(task)), task)
  /\ workers' = AbortTaskWorkers(workers, task)
  /\ UNCHANGED <<pool, free, task, nextId, crashed, capAtStart>>

AbortQuery ==
  /\ ~crashed
  /\ ret' = Called(Plain("abort_query", AbortRet(task)), task)
  /\ workers' = DropTaskWorkers(AbortTaskWorkers(workers, task), task)
  /\ free' = DropTaskFree(workers, free, task)
  /\ task' = NoTask
  /\ capAtStart' = NoStart
  /\ UNCHANGED <<pool, nextId, crashed>>

\* ------------------------------------------------------------------ get_query_results
\* is_finished reporting only failed tasks.
IsFinished_OnlyFailed(wr) == wr.st \in {"panicked", "cancelled"}

\* JoinHandle::is_finished
IsFinished(wr) == wr.st \in {"done", "panicked", "cancelled", "gone"}

\* rows_affected of ConfirmTx: of Ok(rows) only.
ConfirmRows(r) == IF r.err = "ok" THEN r.ra ELSE None

\* get_query_results announcing the held transaction again on every poll.
PollRet_Reconfirm(t, ws) ==
  IF t.kind = "None" THEN Plain("get_query_results", "NoTask")
  ELSE IF t.kind = "TxPending"
    THEN Ret("get_query_results", "ConfirmTx", NoRes, ConfirmRows(t.res), t.res.kind)
  ELSE IF ~IsFinished(ws[t.h]) THEN Plain("get_query_results", "Pending")
  ELSE IF ws[t.h].st # "done" THEN Plain("get_query_results", "Err")
  ELSE IF t.kind = "Query"
    THEN Ret("get_query_results", "Finished", ws[t.h].res, None, "none")
    ELSE Ret("get_query_results", "ConfirmTx", NoRes,
             ConfirmRows(ws[t.h].res), ws[t.h].res.kind)

\* get_query_results propagating a statement's error with `?`.
PollRet_PropagatesExecErr(t, ws) ==
  IF t.kind = "None" THEN Plain("get_query_results", "NoTask")
  ELSE IF t.kind = "TxPending" THEN Plain("get_query_results", "Pending")
  ELSE IF ~IsFinished(ws[t.h]) THEN Plain("get_query_results", "Pending")
  ELSE IF ws[t.h].st # "done" \/ ws[t.h].res.err # "ok"
    THEN Plain("get_query_results", "Err")
  ELSE IF t.kind = "Query"
    THEN Ret("get_query_results", "Finished", ws[t.h].res, None, "none")
    ELSE Ret("get_query_results", "ConfirmTx", NoRes,
             ConfirmRows(ws[t.h].res), ws[t.h].res.kind)

\* The value get_query_results returns.
PollRet(t, ws) ==
  IF t.kind = "None" THEN Plain("get_query_results", "NoTask")
  ELSE IF t.kind = "TxPending" THEN Plain("get_query_results", "Pending")
  ELSE IF ~IsFinished(ws[t.h]) THEN Plain("get_query_results", "Pending")
  ELSE IF ws[t.h].st # "done" THEN Plain("get_query_results", "Err")
  ELSE IF t.kind = "Query"
    THEN Ret("get_query_results", "Finished", ws[t.h].res, None, "none")
    ELSE Ret("get_query_results", "ConfirmTx", NoRes,
             ConfirmRows(ws[t.h].res), ws[t.h].res.kind)

\* get_query_results putting a finished Query handle back into the slot.
PollNext_KeepsFinishedQuery(t, ws) ==
  IF t.kind = "None" THEN NoTask
  ELSE IF t.kind = "TxPending" THEN t
  ELSE IF ~IsFinished(ws[t.h]) THEN t
  ELSE IF ws[t.h].st # "done" THEN NoTask
  ELSE IF t.kind = "Query" THEN t
  ELSE TxPending(ws[t.h].conn, ws[t.h].res)

\* get_query_results keeping a TxPending only for a statement that succeeded.
PollNext_ErrResultClears(t, ws) ==
  IF t.kind = "None" THEN NoTask
  ELSE IF t.kind = "TxPending" THEN t
  ELSE IF ~IsFinished(ws[t.h]) THEN t
  ELSE IF ws[t.h].st # "done" THEN NoTask
  ELSE IF t.kind = "Query" THEN NoTask
  ELSE IF ws[t.h].res.err # "ok" THEN NoTask
  ELSE TxPending(ws[t.h].conn, ws[t.h].res)

\* get_query_results putting the handle of a failed worker back into the slot.
PollNext_KeepsFailed(t, ws) ==
  IF t.kind = "None" THEN NoTask
  ELSE IF t.kind = "TxPending" THEN t
  ELSE IF ~IsFinished(ws[t.h]) THEN t
  ELSE IF ws[t.h].st # "done" THEN t
  ELSE IF t.kind = "Query" THEN NoTask
  ELSE TxPending(ws[t.h].conn, ws[t.h].res)

\* The slot get_query_results leaves behind.
PollNext(t, ws) ==
  IF t.kind = "None" THEN NoTask
  ELSE IF t.kind = "TxPending" THEN t
  ELSE IF ~IsFinished(ws[t.h]) THEN t
  ELSE IF ws[t.h].st # "done" THEN NoTask
  ELSE IF t.kind = "Query" THEN NoTask
  ELSE TxPending(ws[t.h].conn, ws[t.h].res)

\* handle.await consumes the handle and the task's output.
PollWorkers(t, ws) ==
  IF t.kind \in {"Query", "TxStart"} /\ IsFinished(ws[t.h])
    THEN [ws EXCEPT ![t.h] = Gone]
    ELSE ws

GetQueryResults ==
  /\ ~crashed
  /\ ret' = Called(PollRet(task, workers), task)
  /\ task' = PollNext(task, workers)
  /\ workers' = PollWorkers(task, workers)
  /\ capAtStart' = IF task' = NoTask THEN NoStart ELSE capAtStart
  /\ UNCHANGED <<pool, free, nextId, crashed>>

\* ------------------------------------------------------------------ commit_tx / rollback_tx
\* commit_tx failing when there is no transaction to commit.
CommitRet_ErrWhenNothingPending(t, ok) ==
  IF t.kind = "TxPending"
    THEN Issued(IF ok THEN Ret("commit_tx", "Some", t.res, None, "none")
                      ELSE Plain("commit_tx", "Err"),
                "commit", t.res.id)
    ELSE Plain("commit_tx", "Err")

\* commit_tx committing and then returning Ok(None).
CommitRet_DropsResult(t, ok) ==
  IF t.kind = "TxPending"
    THEN Issued(Plain("commit_tx", IF ok THEN "None" ELSE "Err"), "commit", t.res.id)
    ELSE Plain("commit_tx", "None")

\* What commit_tx returns; ok: whether the backend's commit() succeeded.
CommitRet(t, ok) ==
  IF t.kind = "TxPending"
    THEN \* b.0.commit()?; Ok(Some(b.1))
         Issued(IF ok THEN Ret("commit_tx", "Some", t.res, None, "none")
                      ELSE Plain("commit_tx", "Err"),
                "commit", t.res.id)
    ELSE Plain("commit_tx", "None")

\* rollback_tx calling commit() on the held connection.
RollbackRet_Commits(t, ok) ==
  IF t.kind = "TxPending"
    THEN Issued(Plain("rollback_tx", IF ok THEN "Ok" ELSE "Err"), "commit", t.res.id)
    ELSE Plain("rollback_tx", "Ok")

\* What rollback_tx returns; ok: whether the backend's rollback() succeeded.
RollbackRet(t, ok) ==
  IF t.kind = "TxPending"
    THEN \* b.0.rollback()?; Ok(())
         Issued(Plain("rollback_tx", IF ok THEN "Ok" ELSE "Err"), "rollback", t.res.id)
    ELSE Plain("rollback_tx", "Ok")

\* self.task.take() empties the slot whatever it held; a task that is not
\* TxPending is dropped.
CommitTx ==
  /\ ~crashed
  /\ task' = NoTask
  /\ workers' = DropTaskWorkers(workers, task)
  /\ free' = DropTaskFree(workers, free, task)
  /\ \E ok \in BOOLEAN : ret' = Called(CommitRet(task, ok), task)
  /\ capAtStart' = NoStart
  /\ UNCHANGED <<pool, nextId, crashed>>

RollbackTx ==
  /\ ~crashed
  /\ task' = NoTask
  /\ workers' = DropTaskWorkers(workers, task)
  /\ free' = DropTaskFree(workers, free, task)
  /\ \E ok \in BOOLEAN : ret' = Called(RollbackRet(task, ok), task)
  /\ capAtStart' = NoStart
  /\ UNCHANGED <<pool, nextId, crashed>>

\* ------------------------------------------------------------------ workers
\* What a finished worker leaves: its output in the task cell while a
\* JoinHandle exists, nothing once detached (the output is dropped).
Finish(wr, st, c, r) ==
  IF wr.attached THEN [wr EXCEPT !.st = st, !.conn = c, !.res = r]
  ELSE Gone

\* The runtime polls the task: pool.get().
WorkerStart(w) ==
  /\ ~crashed
  /\ workers[w].st = "spawned"
  /\ IF free # {}
       THEN /\ free' = free \ {Checkout(free)}
            /\ workers' = [workers EXCEPT ![w].st = "running", ![w].conn = Checkout(free)]
       ELSE /\ free' = free
            /\ workers' = [workers EXCEPT ![w] =
                 IF workers[w].kind = "Query"
                   THEN \* pool.get()? : the error is the query's result
                        Finish(workers[w], "done", 0, MkRes("pool", None, "Query", w))
                   ELSE \* pool.get().unwrap() panics
                        Finish(workers[w], "panicked", 0, NoRes)]
  /\ UNCHANGED <<pool, task, nextId, ret, crashed, capAtStart>>

\* query_with_pool returns: the temporary connection is dropped.
QueryFinish(w) ==
  /\ ~crashed
  /\ workers[w].st = "running"
  /\ workers[w].kind = "Query"
  /\ \E e \in {"ok", "exec"} :
       workers' = [workers EXCEPT ![w] =
                     Finish(workers[w], "done", 0, MkRes(e, None, "Query", w))]
  /\ free' = Release(free, workers[w].conn)
  /\ UNCHANGED <<pool, task, nextId, ret, crashed, capAtStart>>

\* A TxStart worker handing its connection back when the statement returns.
TxFinishFree_AlwaysReleases(wr, fr) == Release(fr, wr.conn)

\* The pool after a TxStart worker returned: the connection stays in the
\* worker's output unless the task is detached and the output dropped.
TxFinishFree(wr, fr) == IF wr.attached THEN fr ELSE Release(fr, wr.conn)

\* execute_with_conn returns: the worker's output is (result, conn).
TxFinish(w) ==
  /\ ~crashed
  /\ workers[w].st = "running"
  /\ workers[w].kind = "TxStart"
  /\ \E e \in {"ok", "exec"}, n \in RowCounts :
       workers' = [workers EXCEPT ![w] =
                     Finish(workers[w], "done", workers[w].conn,
                            MkRes(e, IF e = "ok" THEN n ELSE None, "Update", w))]
  /\ free' = TxFinishFree(workers[w], free)
  /\ UNCHANGED <<pool, task, nextId, ret, crashed, capAtStart>>

\* The blocking call panics: unwinding drops the connection.
WorkerPanic(w) ==
  /\ ~crashed
  /\ workers[w].st = "running"
  /\ workers' = [workers EXCEPT ![w] = Finish(workers[w], "panicked", 0, NoRes)]
  /\ free' = Release(free, workers[w].conn)
  /\ UNCHANGED <<pool, task, nextId, ret, crashed, capAtStart>>

Next ==
  \/ InitDriver
  \/ StartQuery
  \/ StartTx
  \/ AbortQuery
  \/ GetQueryResults
  \/ CommitTx
  \/ RollbackTx
  \/ \E w \in Ids : WorkerStart(w)
  \/ \E w \in Ids : QueryFinish(w)
  \/ \E w \in Ids : TxFinish(w)
  \/ \E w \in Ids : WorkerPanic(w)

Spec == Init /\ [][Next]_vars

\* ------------------------------------------------------------------ properties
\* The handle in the slot names a worker that returned normally.
TrackedDone == task.kind \in {"Query", "TxStart"} /\ workers[task.h].st = "done"

\* The handle in the slot names a worker that ended with a JoinError.
TrackedFailed ==
  task.kind \in {"Query", "TxStart"} /\ workers[task.h].st \in {"panicked", "cancelled"}

StartStep == StartQuery \/ StartTx

\* A handle put into the slot is the handle of the task just spawned.
FreshHandle ==
  (task' # task /\ task'.kind \in {"Query", "TxStart"}) =>
    (StartStep /\ nextId' = nextId + 1 /\ task'.h = nextId')

\* C1: a finished Query is delivered exactly once: the poll that finds the
\* worker done returns Finished with that worker's result and empties the slot;
\* Finished is returned by no other poll; an empty slot answers NoTask and
\* stays empty until a start_query spawns a new task.
C1_ExactlyOnceDelivery ==
  [][ /\ (GetQueryResults /\ task.kind = "Query" /\ TrackedDone) =>
          (/\ ret'.tag = "Finished"
           /\ ret'.res = workers[task.h].res
           /\ ret'.res.id = task.h
           /\ task' = NoTask)
      /\ (GetQueryResults /\ ret'.tag = "Finished") =>
          (task.kind = "Query" /\ TrackedDone /\ task' = NoTask)
      /\ (GetQueryResults /\ task = NoTask) =>
          (ret'.tag = "NoTask" /\ task' = NoTask)
      /\ (task = NoTask /\ task' # NoTask) => StartStep
      /\ FreshHandle ]_vars

C1_Witness ==
  /\ ret.op = "get_query_results"
  /\ ret.tag = "Finished"
  /\ ret.res.err = "ok"
  /\ ret.pre = "Query"
  /\ task = NoTask

\* C2 as stated: the connection of a TxPending goes back to the pool in a
\* commit_tx or rollback_tx step only.
C2_OnlyFinalizeReleases ==
  [][ (task.kind = "TxPending" /\ task.conn \in free') =>
        (CommitTx \/ RollbackTx) ]_vars

\* C2 amended: the connection of a TxPending is in the slot alone, polls leave
\* it there, and it goes back to the pool only in a commit_tx, rollback_tx,
\* abort_query or start_query / start_tx step.
C2_HeldUntilSlotCleared ==
  /\ [](task.kind = "TxPending" =>
          (/\ task.conn \in Conns
           /\ task.conn \notin free
           /\ \A w \in Ids : workers[w].conn # task.conn))
  /\ [][ (task.kind = "TxPending" /\ task.conn \in free') =>
          (CommitTx \/ RollbackTx \/ AbortQuery \/ StartStep) ]_vars
  /\ [][ (GetQueryResults /\ task.kind = "TxPending") =>
          (task' = task /\ free' = free) ]_vars

C2_Witness ==
  /\ ret.op = "abort_query"
  /\ ret.pre = "TxPending"
  /\ task = NoTask
  /\ free = Conns

\* C3: abort_query empties the slot, returns true or false and never an error,
\* true exactly when the slot held a Query, TxStart or TxPending; an
\* abort_query that follows another returns false.
C3_AbortClearsSlot ==
  [][ /\ AbortQuery =>
          (/\ task' = NoTask
           /\ ret'.op = "abort_query"
           /\ ret'.tag \in {"true", "false"}
           /\ (ret'.tag = "true") <=> (task.kind \in {"Query", "TxStart", "TxPending"}))
      /\ (AbortQuery /\ ret.op = "abort_query") => ret'.tag = "false" ]_vars

C3_Witness ==
  /\ ret.op = "abort_query"
  /\ ret.tag = "true"
  /\ ret.pre = "TxStart"
  /\ task = NoTask

\* C4 as stated: abort_query on a TxPending slot returns false, as on an empty
\* slot.
C4_AbortPendingReportsNoTask ==
  (ret.op = "abort_query" /\ ret.pre = "TxPending") => ret.tag = "false"

\* C4 amended: abort_query on a TxPending slot returns true, unlike on an empty
\* slot where it returns false, and leaves the slot empty.
C4_AbortPendingReportsTask ==
  /\ (ret.op = "abort_query" /\ ret.pre = "TxPending") =>
       (ret.tag = "true" /\ task = NoTask)
  /\ (ret.op = "abort_query" /\ ret.pre = "None") =>
       (ret.tag = "false" /\ task = NoTask)

C4_Witness ==
  /\ ret.op = "abort_query"
  /\ ret.pre = "TxPending"
  /\ ret.tag = "true"
  /\ task = NoTask

\* C5: start_query / start_tx of a mutating statement while the pool has no
\* connection to hand out fails, spawns nothing and leaves the slot as it was.
C5_ExhaustedStartFails ==
  [][ \A sql \in SqlInputs :
        (/\ GetFirstQuery(sql).kind = "Update"
         /\ pool = "Some"
         /\ free = {}
         /\ StartQueryBody("start_query", sql)) =>
          (ret'.tag = "Err" /\ task' = task /\ nextId' = nextId) ]_vars

\* C6: the poll that finds a TxStart worker done returns ConfirmTx and puts
\* TxPending with the worker's connection and result into the slot; ConfirmTx
\* is returned by no other poll; a poll of TxPending returns Pending and leaves
\* the slot as it is.
C6_TxPollProtocol ==
  [][ /\ (GetQueryResults /\ task.kind = "TxStart" /\ TrackedDone) =>
          (/\ ret'.tag = "ConfirmTx"
           /\ ret'.ra = ConfirmRows(workers[task.h].res)
           /\ ret'.kind = workers[task.h].res.kind
           /\ task' = TxPending(workers[task.h].conn, workers[task.h].res)
           /\ task'.conn \in Conns
           /\ task'.res.id = task.h)
      /\ (GetQueryResults /\ ret'.tag = "ConfirmTx") =>
          (task.kind = "TxStart" /\ TrackedDone /\ task'.kind = "TxPending")
      /\ (GetQueryResults /\ task.kind = "TxPending") =>
          (ret'.tag = "Pending" /\ task' = task)
      /\ (task'.kind = "TxPending" /\ task' # task) =>
          (GetQueryResults /\ task.kind = "TxStart")
      /\ FreshHandle ]_vars

C6_Witness ==
  /\ ret.op = "get_query_results"
  /\ ret.tag = "Pending"
  /\ ret.pre = "TxPending"
  /\ task.kind = "TxPending"
  /\ task.conn \notin free

\* C7: with an empty slot commit_tx returns Ok(None) and rollback_tx Ok(()),
\* the slot stays empty, and neither calls commit() or rollback() on a
\* connection.
C7_FinalizeOnEmpty ==
  /\ (ret.op = "commit_tx" /\ ret.pre = "None") =>
       (ret.tag = "None" /\ ret.issued = "none" /\ task = NoTask)
  /\ (ret.op = "rollback_tx" /\ ret.pre = "None") =>
       (ret.tag = "Ok" /\ ret.issued = "none" /\ task = NoTask)

C7_Witness ==
  /\ pool = "Some"
  /\ ret.op = "commit_tx"
  /\ ret.pre = "None"
  /\ ret.tag = "None"
  /\ free = Conns

C9_ExecutionErrorsAreData ==
  [][ /\ (GetQueryResults /\ ret'.tag = "Err") => TrackedFailed
      /\ (GetQueryResults /\ TrackedDone /\ workers[task.h].res.err # "ok") =>
          (/\ task.kind = "Query" =>
                (ret'.tag = "Finished" /\ ret'.res.err = workers[task.h].res.err)
           /\ task.kind = "TxStart" =>
                (ret'.tag = "ConfirmTx" /\ task'.res.err = workers[task.h].res.err)) ]_vars

C9_Witness ==
  /\ ret.op = "get_query_results"
  /\ ret.tag = "Finished"
  /\ ret.res.err = "exec"

\* C10: the poll that finds the tracked worker ended with a JoinError returns
\* the error and leaves the slot empty; the polls after it find the slot empty
\* and return NoTask, until a start_query spawns a new task.
C10_WorkerFailureOnce ==
  [][ /\ (GetQueryResults /\ TrackedFailed) =>
          (ret'.tag = "Err" /\ task' = NoTask)
      /\ (GetQueryResults /\ ret'.tag = "Err") => task' = NoTask
      /\ (GetQueryResults /\ task = NoTask) =>
          (ret'.tag = "NoTask" /\ task' = NoTask)
      /\ (task = NoTask /\ task' # NoTask) => StartStep ]_vars

C10_Witness ==
  /\ ret.op = "get_query_results"
  /\ ret.tag = "Err"
  /\ ret.pre = "Query"
  /\ task = NoTask

\* C11: commit_tx / rollback_tx on TxPending whose commit() / rollback() fails
\* returns that error, leaves the slot empty and hands the connection back to
\* the pool.
C11_FailedFinalizeClears ==
  [][ ((CommitTx \/ RollbackTx) /\ task.kind = "TxPending" /\ ret'.tag = "Err") =>
        (/\ ret'.issued \in {"commit", "rollback"}
         /\ task' = NoTask
         /\ task.conn \notin free
         /\ free' = free \cup {task.conn}
         /\ \A w \in Ids : workers'[w].conn # task.conn) ]_vars

C11_Witness ==
  /\ ret.op = "commit_tx"
  /\ ret.pre = "TxPending"
  /\ ret.tag = "Err"
  /\ ret.issued = "commit"
  /\ task = NoTask
  /\ free = Conns

\* The workers holding connection c.
Holders(c) == {w \in Ids : workers[w].conn = c}

SlotHolds(c) == task.kind = "TxPending" /\ task.conn = c

\* The number of owners of connection c, when the workers in hs count.
Owners(c, hs) ==
  (IF c \in free THEN 1 ELSE 0) + Cardinality(hs) + (IF SlotHolds(c) THEN 1 ELSE 0)

\* C12 as stated: every connection of the pool is owned by exactly one of the
\* pool, a worker executing TxStart, and the TxPending slot.
C12_ThreeOwners ==
  pool = "Some" =>
    \A c \in Conns :
      Owners(c, {w \in Holders(c) :
                   workers[w].kind = "TxStart" /\ workers[w].st = "running"}) = 1

\* C12 amended: every connection of the pool is owned by exactly one of the
\* pool, a worker (a Query or TxStart worker inside its blocking call, or the
\* stored output of a finished TxStart worker) and the TxPending slot; at most
\* PoolMax connections are checked out.
C12_ExclusiveOwnership ==
  /\ free \subseteq Conns
  /\ pool = "Some" =>
       (/\ \A c \in Conns : Owners(c, Holders(c)) = 1
        /\ Cardinality(Conns \ free) <= PoolMax)
  /\ \A w \in Ids :
       workers[w].conn # 0 =>
         (/\ workers[w].conn \in Conns
          /\ \/ workers[w].st = "running"
             \/ workers[w].st = "done" /\ workers[w].kind = "TxStart" /\ workers[w].attached)

C12_Witness ==
  /\ task.kind = "TxPending"
  /\ \E w \in Ids : workers[w].kind = "TxStart" /\ workers[w].st = "running"
  /\ \E w \in Ids : workers[w].kind = "Query" /\ workers[w].st = "running"
  /\ free = {}

\* C13: the slot tracks the task started last, and every Finished, ConfirmTx
\* and commit_tx result is the result of that task.
C13_LatestTaskOnly ==
  /\ task.kind \in {"Query", "TxStart"} => task.h = nextId
  /\ task.kind = "TxPending" => task.res.id = nextId
  /\ (ret.op = "get_query_results" /\ ret.tag = "Finished") => ret.res.id = nextId
  /\ (ret.op = "get_query_results" /\ ret.tag = "ConfirmTx") =>
       (task.kind = "TxPending" /\ task.res.id = nextId)
  /\ (ret.op = "commit_tx" /\ ret.tag = "Some") =>
       (ret.res.id = nextId /\ ret.on = nextId)

C13_Witness ==
  /\ ret.op = "get_query_results"
  /\ ret.tag = "Finished"
  /\ ret.res.id = nextId
  /\ \E w \in Ids : w < nextId /\ workers[w].st = "running" /\ ~workers[w].attached

\* C14: start_query / start_tx of SQL the classifier rejects returns the
\* error, spawns no worker, checks out no connection and leaves the slot as it
\* was.
C14_ClassifyErrorNoTask ==
  [][ \A sql \in SqlInputs :
        (~GetFirstQuery(sql).ok /\ StartQueryBody("start_query", sql)) =>
          (/\ ret'.tag = "Err"
           /\ ret'.pre = task.kind
           /\ task' = task
           /\ workers' = workers
           /\ nextId' = nextId
           /\ free' = free) ]_vars

C14_Witness ==
  /\ ret.op = "start_query"
  /\ ret.tag = "Err"
  /\ ret.pre = "TxPending"
  /\ task.kind = "TxPending"

\* What commit_tx does to a TxPending, the pool capacity aside: one commit()
\* on the held connection, Some(held result) unless that commit() fails, an
\* empty slot, and the connection back in the pool.
CommitRoundTrip ==
  (CommitTx /\ task.kind = "TxPending") =>
    (/\ ret'.issued = "commit"
     /\ ret'.on = task.res.id
     /\ ret'.tag \in {"Some", "Err"}
     /\ ret'.tag = "Some" => ret'.res = task.res
     /\ (ret'.tag = "Some" /\ ret.op = "get_query_results" /\ ret.tag = "ConfirmTx"
           /\ ret.ra # None) =>
          (ret'.res.err = "ok" /\ ret'.res.ra = ret.ra /\ ret'.res.kind = ret.kind)
     /\ task' = NoTask
     /\ task.conn \notin free
     /\ free' = free \cup {task.conn})

\* C15 as stated: for a mutating statement started from an empty slot,
\* commit_tx after ConfirmTx(Some(n), kind) commits once, returns the result
\* with Some(n) and kind, empties the slot and leaves as many idle connections
\* as there were before the statement was started.
C15_CapacityAsBeforeStart ==
  [][ /\ CommitRoundTrip
      /\ (CommitTx /\ task.kind = "TxPending" /\ capAtStart # NoStart
           /\ task.res.ra # None /\ ret'.tag = "Some") =>
          Cardinality(free') = capAtStart.cap ]_vars

\* C15 amended: the same, with the commit's own failure returned in place of
\* the result, and the capacity equal to its value before the start when no
\* earlier (aborted or discarded) worker was still active at that start.
C15_CommitRoundTrip ==
  [][ /\ CommitRoundTrip
      /\ (CommitTx /\ task.kind = "TxPending" /\ capAtStart.quiet) =>
          (Cardinality(free') = capAtStart.cap /\ free' = Conns) ]_vars

C15_Witness ==
  /\ ret.op = "commit_tx"
  /\ ret.tag = "Some"
  /\ ret.res.err = "ok"
  /\ ret.res.ra = 1
  /\ ret.issued = "commit"
  /\ task = NoTask
  /\ free = Conns

\* C16: abort_query empties the slot, and while no start_query / start_tx
\* follows, no poll returns Finished or ConfirmTx and no commit_tx returns a
\* result, whatever the aborted worker still does.
C16_AbortCutsDelivery ==
  [][ /\ AbortQuery => task' = NoTask
      /\ (task = NoTask /\ ~StartStep) => task' = NoTask
      /\ (task = NoTask /\ (GetQueryResults \/ CommitTx)) =>
          ret'.tag \in {"NoTask", "None"} ]_vars

C16_Witness ==
  /\ ret.op = "get_query_results"
  /\ ret.tag = "NoTask"
  /\ task = NoTask
  /\ nextId \in Ids
  /\ workers[nextId].kind = "TxStart"
  /\ workers[nextId].st = "running"
  /\ ~workers[nextId].attached

\* C17: commit_tx / rollback_tx called while the slot holds a Query or TxStart
\* leave that task in the slot.
C17_FinalizeKeepsRunningTask ==
  (ret.op \in {"commit_tx", "rollback_tx"} /\ ret.pre \in {"Query", "TxStart"}) =>
    task.kind = ret.pre

\* C18 as stated: when the slot is not TxPending and no worker is inside its
\* blocking call, every connection is idle in the pool.
C18_IdleWhenNothingRuns ==
  (/\ pool = "Some"
   /\ task.kind # "TxPending"
   /\ \A w \in Ids : workers[w].st # "running") => free = Conns

\* C18 amended: when the slot holds neither TxPending nor the handle of a
\* finished TxStart worker that has not been polled, and no worker is inside
\* its blocking call, every connection is idle in the pool.
C18_NoConnectionLeak ==
  (/\ pool = "Some"
   /\ task.kind # "TxPending"
   /\ ~(task.kind = "TxStart" /\ TrackedDone)
   /\ \A w \in Ids : workers[w].st # "running") => free = Conns

C18_Witness ==
  /\ ret.op = "start_query"
  /\ ret.tag = "Ok"
  /\ ret.pre = "TxPending"
  /\ free = Conns
  /\ \A w \in Ids : workers[w].st # "running"

\* C19: commit() is called by commit_tx alone, on the connection of the
\* TxPending in the slot, whose statement is the one started last; a TxPending
\* only comes from polling the TxStart handle of its own statement, so a
\* transaction that left the slot is not committed later.
C19_NoImplicitCommit ==
  /\ [](ret.issued = "commit" =>
          (ret.op = "commit_tx" /\ ret.pre = "TxPending" /\ ret.on = nextId))
  /\ [](ret.issued = "rollback" => ret.op = "rollback_tx")
  /\ [][ /\ (ret' # ret /\ ret'.issued = "commit") =>
            (CommitTx /\ task.kind = "TxPending" /\ ret'.on = task.res.id)
        /\ (task'.kind = "TxPending" /\ task' # task) =>
            (GetQueryResults /\ task.kind = "TxStart" /\ task'.res.id = task.h)
        /\ FreshHandle ]_vars

C19_Witness ==
  /\ ret.op = "rollback_tx"
  /\ ret.pre = "TxPending"
  /\ ret.issued = "rollback"
  /\ ret.on = nextId
  /\ task = NoTask

\* ------------------------------------------------------------------ polling session
\* The front end of C20: it starts a task when the slot is empty, polls, and
\* finalizes a held transaction; no worker panics.
LiveStart == task = NoTask /\ StartStep

LiveFinalize == task.kind = "TxPending" /\ (CommitTx \/ RollbackTx)

LiveNext ==
  \/ InitDriver
  \/ LiveStart
  \/ GetQueryResults
  \/ LiveFinalize
  \/ \E w \in Ids : WorkerStart(w)
  \/ \E w \in Ids : QueryFinish(w)
  \/ \E w \in Ids : TxFinish(w)

\* The runtime runs every spawned task, the blocking calls return, and the
\* front end polls on every tick.
LiveSpec ==
  /\ Init
  /\ [][LiveNext]_vars
  /\ WF_vars(GetQueryResults)
  /\ \A w \in Ids : WF_vars(WorkerStart(w))
  /\ \A w \in Ids : WF_vars(QueryFinish(w))
  /\ \A w \in Ids : WF_vars(TxFinish(w))

\* The poll delivered the outcome of task w.
Delivered(w) ==
  /\ ret.op = "get_query_results"
  /\ \/ ret.tag = "Finished" /\ ret.res.id = w /\ task = NoTask
     \/ ret.tag = "ConfirmTx" /\ task.kind = "TxPending" /\ task.res.id = w

====
